---- MODULE Spec2Model ----
(***************************************************************************)
(* A model of esmgen (src/unnamed/part_000): the package conversion        *)
(* pipeline (metadata resolver, entry point resolver, asset selector,      *)
(* manifest updater), the add and remove commands, and the static server:  *)
(* its bind/retry state machine and its handler of GET /.                  *)
(*                                                                         *)
(* Each component has a specification of its own over the shared           *)
(* variables: SpecEntry, SpecManifest, SpecServe, SpecRoot, SpecPipeline,  *)
(* SpecRemove, SpecAssets.                                                 *)
(***************************************************************************)
EXTENDS Integers, Sequences, FiniteSets, TLC

VARIABLES
    \* ---- entry point resolver (findEntryFile) ----
    pkgJson,      \* the descriptor of the package root: <<>> (no package.json) or <<record>>
    disk,         \* the files of the package root, each a normalised relative path
    entryPc,      \* "ready" | "done"
    entryResult,  \* what findEntryFile returned: <<>> (null) or <<path>>
    \* ---- manifest updater (updatePackageJson, getEsmPackages) ----
    manifestFile, \* ./package.json: <<>> (no such file) or <<its text, a token sequence>>
    updPc,        \* "idle" | "writing": where updatePackageJson is
    updBuf,       \* the part of the new text writeFileSync has still to write
    updOutcome,   \* "none" | "noop" | "ok" | "threw": how the last call ended
    lastOp,       \* the call in progress or just ended: <<>> or <<[pkg, action, version]>>
    prevOp,       \* the call before it
    beforeFile,   \* manifestFile as the last call found it
    readerSaw,    \* what a concurrent reader last read: <<>> or <<[exists, text]>>
    \* ---- static server (serve, attemptToListen) ----
    srvState,     \* "idle" | "starting" | "listening" | "failed" | "crashed"
    srvStart,     \* the port serve was called with (a number or a string)
    srvPort,      \* the port of the attemptToListen call in progress
    occupied,     \* the ports other processes hold: a bind there fails with EADDRINUSE
    denied,       \* the ports a bind fails on with another error (EACCES)
    attempts,     \* the ports app.listen was asked to bind, in order (as numbers)
    retriedOn,    \* per attempt after the first, the error code it answered
    boundPort,    \* <<>> or <<the port the server listens on>>
    announced,    \* <<>> or <<the port of the "Serving ... on" message, as printed>>
    customEntryFile, \* the --entry option: <<>> (not given) or <<file name>>
    cwdFiles,     \* the files of the current directory, by name
    servedFiles,  \* the files under the served directory, each a path
    dirReadable,  \* whether readdirSync of the served directory succeeds
    response,     \* <<>> or <<the response to the last GET />>
    \* ---- conversion pipeline (add command, processPackage) ----
    cmd,          \* the add command's arguments: [pkg |-> <<>> or <<name>>, version |-> selector,
                  \* serve |-> the --serve option]
    ppPc,         \* "start" | "ready" | "fetched" | "downloaded" | "located" | "converted" | "end"
                  \* | "aborted" (the action's promise was rejected)
    queue,        \* the requests still to process, the one in progress first
    ppData,       \* <<>> or <<the release record fetchPackageMetadata returned>>
    ppKey,        \* <<>> or <<the key of the versions table that record was found under>>
    tmpDirs,      \* the directories under the download directory
    esmDirs,      \* the directories under the conversion (ESM) directory
    outcomes,     \* one record per processPackage call that returned, in order
    serveCalls,   \* one record per call of serve made by the add command, in order
    esmFiles,     \* the files under the conversion (ESM) directory, each a path
    esmPresent,   \* whether the conversion (ESM) directory itself exists
    rmLast,       \* <<>> or <<the remove command that ran: its package and what it found>>
    \* ---- asset selector (copyAssets) ----
    tree,         \* the files of the source directory, each a path: a sequence of names
    entryDir,     \* the directory of the entry file (the boundary), a path
    includeAll,   \* the includeAllAssets flag of the run
    copyPc,       \* "ready" | "copying" | "done" | "threw"
    stack,        \* the copyAssets calls in progress, the innermost last
    dest,         \* the destination directory: a set of [path, kind: "file" | "dir"]
    report,       \* the source paths printed as not included
    runs          \* how many runs of copyAssets have started

entryVars == <<pkgJson, disk, entryPc, entryResult>>

manifestVars ==
    <<manifestFile, updPc, updBuf, updOutcome, lastOp, prevOp, beforeFile, readerSaw>>

rootVars == <<customEntryFile, cwdFiles, servedFiles, dirReadable, response>>

serveVars ==
    <<srvState, srvStart, srvPort, occupied, denied, attempts, retriedOn, boundPort,
      announced, rootVars>>

pipeVars ==
    <<cmd, ppPc, queue, ppData, ppKey, tmpDirs, esmDirs, outcomes, serveCalls, esmFiles,
      esmPresent, rmLast>>

assetVars == <<tree, entryDir, includeAll, copyPc, stack, dest, report, runs>>

vars == <<entryVars, manifestVars, serveVars, pipeVars, assetVars>>

(***************************************************************************)
(* Generic helpers                                                         *)
(***************************************************************************)

\* An optional value: <<>> is JavaScript's null/undefined, <<x>> is x.
None == <<>>

Some(x) == <<x>>

IsPrefix(p, q) == Len(p) <= Len(q) /\ SubSeq(q, 1, Len(p)) = p

RECURSIVE Concat(_)
Concat(ss) == IF ss = <<>> THEN <<>> ELSE Head(ss) \o Concat(Tail(ss))

(***************************************************************************)
(* Paths.  A raw path (as written in a descriptor) is a sequence of        *)
(* segments; "." and ".." are segments like any other until path.join      *)
(* normalises them.                                                        *)
(***************************************************************************)

\* path.join(inputDir, raw), relative to inputDir: "." segments vanish, ".."
\* drops the segment before it (and stays when there is none).
RECURSIVE Normalize(_, _)
Normalize(raw, acc) ==
    IF raw = <<>> THEN acc
    ELSE LET s == Head(raw) IN
         IF s = "." THEN Normalize(Tail(raw), acc)
         ELSE IF s = ".." /\ acc # <<>> /\ acc[Len(acc)] # ".."
              THEN Normalize(Tail(raw), SubSeq(acc, 1, Len(acc) - 1))
         ELSE Normalize(Tail(raw), Append(acc, s))

PathJoin(raw) == Normalize(raw, <<>>)

\* fs.existsSync(path.join(inputDir, p)): true of the root itself, of a file and
\* of a directory (a proper prefix of a file's path).
ExistsSync(files, p) ==
    \/ p = <<>>
    \/ \E f \in files : IsPrefix(p, f)

(***************************************************************************)
(* Entry point resolver                                                    *)
(***************************************************************************)

\* A JSON value of the descriptor, as far as findEntryFile looks at it:
\*   t = "undef"  the field is missing
\*   t = "str"    a string; v = <<entry>>
\*   t = "arr"    a list; v = its entries
\*   t = "obj"    any other object (a conditions object)
\* an entry is [s |-> it is a string, p |-> the raw path it spells].
Undef == [t |-> "undef", v |-> <<>>]

Str(p) == [t |-> "str", v |-> <<[s |-> TRUE, p |-> p]>>]

Arr(es) == [t |-> "arr", v |-> es]

Obj == [t |-> "obj", v |-> <<>>]

StrEntry(p) == [s |-> TRUE, p |-> p]

NonStrEntry == [s |-> FALSE, p |-> <<>>]

\* [a, b].flat(): a list contributes its elements, anything else itself (a
\* value that is not a string stays one element that is not a string).
FlatOne(x) ==
    IF x.t = "arr" THEN x.v
    ELSE IF x.t = "str" THEN x.v
    ELSE <<NonStrEntry>>

Flat(xs) == Concat([i \in 1..Len(xs) |-> FlatOne(xs[i])])

\* JavaScript truthiness of a descriptor field: undefined and "" are falsy.
Truthy(x) ==
    \/ x.t \in {"arr", "obj"}
    \/ x.t = "str" /\ x.v[1].p # <<>>

\* The loop of lines 302-309: the first string entry whose joined path exists.
RECURSIVE FirstExistingEntry(_, _)
FirstExistingEntry(files, es) ==
    IF es = <<>> THEN None
    ELSE IF Head(es).s /\ ExistsSync(files, PathJoin(Head(es).p))
         THEN Some(PathJoin(Head(es).p))
    ELSE FirstExistingEntry(files, Tail(es))

distFiles == << <<"dist", "index.js">>, <<"dist", "index.cjs">> >>

\* The loop of lines 313-318.
RECURSIVE FirstExistingPath(_, _)
FirstExistingPath(files, ps) ==
    IF ps = <<>> THEN None
    ELSE IF ExistsSync(files, PathJoin(Head(ps))) THEN Some(PathJoin(Head(ps)))
    ELSE FirstExistingPath(files, Tail(ps))

\* packageJson.source || null, packageJson.main || null: a falsy field is null,
\* and the loop of lines 324-331 skips a null candidate.
OrNull(x) == IF x.t = "str" /\ Truthy(x) THEN <<x.v[1].p>> ELSE <<>>

fileCandidates(d) ==
    OrNull(d.source) \o OrNull(d.main) \o << <<"index.js">>, <<"index.ts">> >>

\* exportFields.default / exportFields.require: a property of an object; a
\* string or a list has no such property.
ExportField(d, k) == IF d.exports.t = "obj" THEN d.exp[k] ELSE Undef

ExportsStage(d, files) ==
    IF Truthy(d.exports)
    THEN FirstExistingEntry(files,
             Flat(<<ExportField(d, "default"), ExportField(d, "require")>>))
    ELSE None

DistStage(d, files) == FirstExistingPath(files, distFiles)

CandidateStage(d, files) == FirstExistingPath(files, fileCandidates(d))

\* The order of the three stages with the dist directory looked at first.
findEntryFile_DistFirst(desc, files) ==
    IF desc = None THEN None
    ELSE LET d == desc[1] IN
         IF DistStage(d, files) # None THEN DistStage(d, files)
         ELSE IF ExportsStage(d, files) # None THEN ExportsStage(d, files)
         ELSE CandidateStage(d, files)

findEntryFile(desc, files) ==
    IF desc = None THEN None
    ELSE LET d == desc[1] IN
         IF ExportsStage(d, files) # None THEN ExportsStage(d, files)
         ELSE IF DistStage(d, files) # None THEN DistStage(d, files)
         ELSE CandidateStage(d, files)

\* ---- the inputs of the entry point resolver ----

EntryFiles ==
    { <<"esm", "index.js">>, <<"cjs", "index.js">>, <<"dist", "index.js">>,
      <<"dist", "index.cjs">>, <<"src", "index.ts">>, <<"lib", "main.js">>,
      <<"index.js">>, <<"index.ts">> }

DefaultValues ==
    { Undef, Obj, Str(<<>>), Str(<<".", "esm", "index.js">>),
      Arr(<<NonStrEntry, StrEntry(<<".", "esm", "index.js">>),
            StrEntry(<<".", "dist", "index.cjs">>)>>) }

RequireValues ==
    { Undef, Str(<<".", "cjs", "index.js">>),
      Arr(<<StrEntry(<<"cjs", "index.js">>), StrEntry(<<"index.js">>)>>) }

SourceValues == { Undef, Str(<<>>), Str(<<"src", "index.ts">>) }

MainValues ==
    { Undef, Str(<<"lib", "main.js">>), Str(<<".", "index.ts">>), Str(<<"dist">>) }

NoExp == [default |-> Undef, require |-> Undef]

Descriptors ==
    { [exports |-> e, exp |-> NoExp, source |-> s, main |-> m] :
          e \in {Undef, Str(<<".", "index.js">>)}, s \in SourceValues, m \in MainValues }
    \cup
    { [exports |-> Obj, exp |-> [default |-> df, require |-> rq], source |-> s, main |-> m] :
          df \in DefaultValues, rq \in RequireValues, s \in SourceValues, m \in MainValues }

EntryIdle ==
    /\ pkgJson = None
    /\ disk = {}
    /\ entryPc = "ready"
    /\ entryResult = None

EntryInputs ==
    /\ pkgJson \in {None} \cup { Some(d) : d \in Descriptors }
    /\ disk \in SUBSET EntryFiles
    /\ entryPc = "ready"
    /\ entryResult = None

\* One call of findEntryFile(inputDir) on the package root.
FindEntry ==
    /\ entryPc = "ready"
    /\ entryResult' = findEntryFile(pkgJson, disk)
    /\ entryPc' = "done"
    /\ UNCHANGED <<pkgJson, disk>>
    /\ UNCHANGED <<manifestVars, serveVars, pipeVars, assetVars>>

(***************************************************************************)
(* Manifest updater.  The sidecar package.json is kept as its text: a      *)
(* sequence of tokens, so that a half-written file is a prefix of one.     *)
(***************************************************************************)

PkgNames == {"left-pad", "react"}

Versions == {"1.3.0", "17.0.0"}

\* A structural token of the text, and a "name": "version" member.
Tok(s) == [k |-> s, v |-> ""]

Pair(n, ver) == [k |-> n, v |-> ver]

\* The parsed document: its other members (rest), whether it has an esm
\* section ("none": no or a falsy esm, "bare": an esm with no packages
\* mapping, "pkgs": an esm with one), and the packages mapping as the ordered
\* list of its members (a JavaScript object keeps insertion order).
Doc(rest, esm, packages) == [rest |-> rest, esm |-> esm, packages |-> packages]

\* JSON.stringify(packageJson, null, 2)
Stringify(c) ==
    <<Tok("{"), Tok(c.rest)>>
    \o (IF c.esm = "none" THEN <<>>
        ELSE <<Tok("esm"), Tok("{")>>
             \o (IF c.esm = "bare" THEN <<>>
                 ELSE <<Tok("packages"), Tok("{")>> \o c.packages \o <<Tok("}")>>)
             \o <<Tok("}")>>)
    \o <<Tok("}")>>

\* JSON.parse(text): <<>> when the text is not a complete document (a
\* SyntaxError), <<document>> otherwise.
Parse(t) ==
    LET n == Len(t) IN
    IF n < 3 \/ t[1] # Tok("{") \/ t[n] # Tok("}") \/ t[2].v # "" THEN None
    ELSE IF n = 3 THEN Some(Doc(t[2].k, "none", <<>>))
    ELSE IF n < 6 \/ t[3] # Tok("esm") \/ t[4] # Tok("{") \/ t[n - 1] # Tok("}") THEN None
    ELSE IF n = 6 THEN Some(Doc(t[2].k, "bare", <<>>))
    ELSE IF n < 9 \/ t[5] # Tok("packages") \/ t[6] # Tok("{") \/ t[n - 2] # Tok("}")
         THEN None
    ELSE IF \E i \in 7..(n - 3) : t[i].v = "" THEN None
    ELSE Some(Doc(t[2].k, "pkgs", SubSeq(t, 7, n - 3)))

HasKey(pkgs, n) == \E i \in 1..Len(pkgs) : pkgs[i].k = n

\* packages[pkg] = version: an existing member keeps its place and takes the
\* new value, a new one goes last.
SetKey(pkgs, n, ver) ==
    IF HasKey(pkgs, n)
    THEN [i \in 1..Len(pkgs) |-> IF pkgs[i].k = n THEN Pair(n, ver) ELSE pkgs[i]]
    ELSE Append(pkgs, Pair(n, ver))

\* delete packages[pkg]
DeleteKey(pkgs, n) == SelectSeq(pkgs, LAMBDA m : m.k # n)

\* Lines 506-508: a missing (or falsy) esm section becomes { packages: {} }.
EnsureEsm(c) == IF c.esm = "none" THEN Doc(c.rest, "pkgs", <<>>) ELSE c

\* Lines 510-514 on the parsed document: <<>> when the member access throws
\* (esm.packages is undefined), <<document>> otherwise.
ApplyAction(c, pkg, action, ver) ==
    LET e == EnsureEsm(c) IN
    IF action \in {"add", "remove"} /\ e.esm = "bare" THEN None
    ELSE IF action = "add" THEN Some(Doc(e.rest, "pkgs", SetKey(e.packages, pkg, ver)))
    ELSE IF action = "remove" THEN Some(Doc(e.rest, "pkgs", DeleteKey(e.packages, pkg)))
    ELSE Some(e)

\* getEsmPackages on a text: packageJson.esm?.packages || {}
EsmPackagesOf(t) ==
    IF Parse(t) = None THEN <<>>
    ELSE IF Parse(t)[1].esm = "pkgs" THEN Parse(t)[1].packages ELSE <<>>

Op(pkg, action, ver) == [pkg |-> pkg, action |-> action, version |-> ver]

\* updatePackageJson(pkg, action, version) up to the open of writeFileSync:
\* no file, nothing done; a text that does not parse or a packages mapping
\* that is not there, an exception and the file as it was; otherwise the file
\* is opened for writing, which truncates it, with the new text to be written.
UpdateStart(pkg, action, ver) ==
    /\ updPc = "idle"
    /\ prevOp' = lastOp
    /\ lastOp' = Some(Op(pkg, action, ver))
    /\ beforeFile' = manifestFile
    /\ IF manifestFile = None
       THEN /\ updOutcome' = "noop"
            /\ UNCHANGED <<manifestFile, updPc, updBuf>>
       ELSE IF Parse(manifestFile[1]) = None
                  \/ ApplyAction(Parse(manifestFile[1])[1], pkg, action, ver) = None
       THEN /\ updOutcome' = "threw"
            /\ UNCHANGED <<manifestFile, updPc, updBuf>>
       ELSE /\ updBuf' = Stringify(ApplyAction(Parse(manifestFile[1])[1], pkg, action, ver)[1])
            /\ manifestFile' = Some(<<>>)
            /\ updPc' = "writing"
            /\ updOutcome' = "none"
    /\ UNCHANGED readerSaw
    /\ UNCHANGED <<entryVars, serveVars, pipeVars, assetVars>>

\* One write(2) of writeFileSync: some of what is left reaches the file; the
\* call returns when nothing is left.
UpdateWrite ==
    /\ updPc = "writing"
    /\ \E k \in 1..Len(updBuf) :
          /\ manifestFile' = Some(manifestFile[1] \o SubSeq(updBuf, 1, k))
          /\ updBuf' = SubSeq(updBuf, k + 1, Len(updBuf))
          /\ IF k = Len(updBuf)
             THEN updPc' = "idle" /\ updOutcome' = "ok"
             ELSE UNCHANGED <<updPc, updOutcome>>
    /\ UNCHANGED <<lastOp, prevOp, beforeFile, readerSaw>>
    /\ UNCHANGED <<entryVars, serveVars, pipeVars, assetVars>>

\* A concurrent reader (getEsmPackages of another invocation) reads the file.
ReaderRead ==
    /\ readerSaw' = Some([exists |-> manifestFile # None,
                          text |-> IF manifestFile = None THEN <<>> ELSE manifestFile[1]])
    /\ UNCHANGED <<manifestFile, updPc, updBuf, updOutcome, lastOp, prevOp, beforeFile>>
    /\ UNCHANGED <<entryVars, serveVars, pipeVars, assetVars>>

\* ---- the inputs of the manifest updater ----

MaxPackages == 2

\* Lists of at most MaxPackages members with distinct names.
RECURSIVE PackageLists(_)
PackageLists(n) ==
    IF n = 0 THEN {<<>>}
    ELSE PackageLists(n - 1) \cup
         { Append(l, Pair(p, v)) : l \in { x \in PackageLists(n - 1) : Len(x) = n - 1 },
                                   p \in PkgNames, v \in Versions }

ManifestDocs ==
    { Doc("name", e, <<>>) : e \in {"none", "bare"} }
    \cup { Doc("name", "pkgs", l) :
             l \in { x \in PackageLists(MaxPackages) :
                       \A i, j \in 1..Len(x) : x[i].k = x[j].k => i = j } }

ManifestIdle ==
    /\ manifestFile = None
    /\ updPc = "idle"
    /\ updBuf = <<>>
    /\ updOutcome = "none"
    /\ lastOp = None
    /\ prevOp = None
    /\ beforeFile = None
    /\ readerSaw = None

ManifestInputs ==
    /\ manifestFile \in {None} \cup { Some(Stringify(c)) : c \in ManifestDocs }
    /\ updPc = "idle"
    /\ updBuf = <<>>
    /\ updOutcome = "none"
    /\ lastOp = None
    /\ prevOp = None
    /\ beforeFile = None
    /\ readerSaw = None

(***************************************************************************)
(* Static server: the bind/retry state machine of serve.                   *)
(***************************************************************************)

defaultPort == 3000

\* The largest port app.listen accepts; above it listen throws a RangeError.
MaxValidPort == 65535

\* A port as the command hands it to serve: the number defaultPort when the
\* option is not given, the option's text (a string of digits) when it is.
NumPort(n) == [kind |-> "num", n |-> n, s |-> <<>>]

StrPort(digits) == [kind |-> "str", n |-> 0, s |-> digits]

RECURSIVE DigitsToNat(_)
DigitsToNat(ds) ==
    IF ds = <<>> THEN 0 ELSE 10 * DigitsToNat(SubSeq(ds, 1, Len(ds) - 1)) + ds[Len(ds)]

RECURSIVE NatToDigits(_)
NatToDigits(n) == IF n < 10 THEN <<n>> ELSE Append(NatToDigits(n \div 10), n % 10)

\* Number(port), what listen binds.
ToNumber(p) == IF p.kind = "num" THEN p.n ELSE DigitsToNat(p.s)

\* `${port}`, what the message prints.
ToText(p) == IF p.kind = "num" THEN NatToDigits(p.n) ELSE p.s

\* port + 1: the sum of two numbers, the concatenation of a string and "1".
PlusOne(p) == IF p.kind = "num" THEN NumPort(p.n + 1) ELSE StrPort(Append(p.s, 1))

\* attemptToListen(port), up to the return of app.listen: a port listen
\* rejects makes it throw (out of serve, or out of the error handler that
\* retried), any other starts a bind.
AttemptToListen(p) ==
    /\ srvPort' = p
    /\ IF ToNumber(p) > MaxValidPort
       THEN /\ srvState' = "crashed"
            /\ UNCHANGED attempts
       ELSE /\ srvState' = "starting"
            /\ attempts' = Append(attempts, ToNumber(p))

\* serve(dir, port, host, customEntryFile)
ServeStart ==
    /\ srvState = "idle"
    /\ AttemptToListen(srvStart)
    /\ UNCHANGED <<srvStart, occupied, denied, retriedOn, boundPort, announced>>
    /\ UNCHANGED rootVars
    /\ UNCHANGED <<entryVars, manifestVars, pipeVars, assetVars>>

\* The bind succeeds and the callback of app.listen prints the message.
BindListening ==
    /\ srvState = "starting"
    /\ ToNumber(srvPort) \notin occupied \cup denied
    /\ srvState' = "listening"
    /\ boundPort' = Some(ToNumber(srvPort))
    /\ announced' = Some(ToText(srvPort))
    /\ UNCHANGED <<srvStart, srvPort, occupied, denied, attempts, retriedOn>>
    /\ UNCHANGED rootVars
    /\ UNCHANGED <<entryVars, manifestVars, pipeVars, assetVars>>

\* The server's "error" handler with err.code = "EADDRINUSE".
BindAddrInUse ==
    /\ srvState = "starting"
    /\ ToNumber(srvPort) \in occupied
    /\ retriedOn' = Append(retriedOn, "EADDRINUSE")
    /\ AttemptToListen(PlusOne(srvPort))
    /\ UNCHANGED <<srvStart, occupied, denied, boundPort, announced>>
    /\ UNCHANGED rootVars
    /\ UNCHANGED <<entryVars, manifestVars, pipeVars, assetVars>>

\* The server's "error" handler with any other code.
BindOtherError ==
    /\ srvState = "starting"
    /\ ToNumber(srvPort) \in denied
    /\ srvState' = "failed"
    /\ UNCHANGED <<srvStart, srvPort, occupied, denied, attempts, retriedOn, boundPort,
                   announced>>
    /\ UNCHANGED rootVars
    /\ UNCHANGED <<entryVars, manifestVars, pipeVars, assetVars>>

\* express.static(dir): the file a URL path names under the served root.
StaticResolve(root, url) == root \o url

\* Lines 145-147: the names of the immediate subdirectories of the served
\* root, the directory entries that are not files.
Subdirectories(files, root) ==
    { f[Len(root) + 1] : f \in { g \in files : IsPrefix(root, g) /\ Len(g) > Len(root) + 1 } }

\* Line 150: the path of `import "/${packageName}/bundle.js";`.
ImportPath(packageName) == <<packageName, "bundle.js">>

\* ---- the handler of GET / ----

Response(kind, status, file, listed) ==
    [kind |-> kind, status |-> status, file |-> file, listed |-> listed,
     imports |-> { ImportPath(n) : n \in listed }]

\* app.get("/"), lines 133-200: with a custom entry file configured, that
\* file or a 404 page; without one, the generated index of the served
\* directory's subdirectories, or the error page when it cannot be read.
RootHandler(custom, cwd, files, readable) ==
    IF custom # None
    THEN IF custom[1] \in cwd
         THEN Response("customFile", 200, custom, {})
         ELSE Response("notFoundPage", 404, None, {})
    ELSE IF readable
         THEN Response("index", 200, None, Subdirectories(files, <<>>))
         ELSE Response("errorPage", 200, None, {})

\* express.static(dir) asked for "/": the index.html of the served directory
\* when there is one, otherwise the request is passed on.
StaticRoot(files) ==
    IF StaticResolve(<<>>, <<"index.html">>) \in files
    THEN Some(Response("staticFile", 200, Some("index.html"), {}))
    ELSE None

\* The handlers a request for "/" meets, in the order they were registered
\* (app.get at line 133, app.use(express.static) at line 202); the first
\* that answers ends the request.
Dispatch(answers) ==
    LET first == CHOOSE i \in 1..Len(answers) :
                     answers[i] # None /\ \A j \in 1..(i - 1) : answers[j] = None
    IN answers[first]

\* A GET of "/" on a listening server.
GetRoot ==
    /\ srvState = "listening"
    /\ response' = Dispatch(<< Some(RootHandler(customEntryFile, cwdFiles, servedFiles,
                                                 dirReadable)),
                               StaticRoot(servedFiles) >>)
    /\ UNCHANGED <<srvState, srvStart, srvPort, occupied, denied, attempts, retriedOn,
                   boundPort, announced>>
    /\ UNCHANGED <<customEntryFile, cwdFiles, servedFiles, dirReadable>>
    /\ UNCHANGED <<entryVars, manifestVars, pipeVars, assetVars>>

EntryFileNames == {"custom.html"}

ServedPaths ==
    { <<"index.html">>, <<"react@17.0.0", "bundle.js">>, <<"left-pad@1.3.0", "bundle.js">>,
      <<"left-pad@1.3.0", "img", "logo.png">> }

RootIdle ==
    /\ customEntryFile = None
    /\ cwdFiles = {}
    /\ servedFiles = {}
    /\ dirReadable = TRUE
    /\ response = None

RootInputs ==
    /\ customEntryFile \in {None} \cup { Some(f) : f \in EntryFileNames }
    /\ cwdFiles \in SUBSET EntryFileNames
    /\ servedFiles \in SUBSET ServedPaths
    /\ dirReadable \in BOOLEAN
    /\ response = None

\* ---- the inputs of the server ----

UserPorts == { <<3, 0, 0, 0>>, <<4, 0, 0, 1>> }

PortsInUse == { 3000, 3001, 3002, 4001, 4002, 30001, 40011 }

PortsDenied == { 3001, 3002, 4002, 30001 }

ServeIdle ==
    /\ RootIdle
    /\ srvState = "idle"
    /\ srvStart = NumPort(defaultPort)
    /\ srvPort = NumPort(defaultPort)
    /\ occupied = {}
    /\ denied = {}
    /\ attempts = <<>>
    /\ retriedOn = <<>>
    /\ boundPort = None
    /\ announced = None

ServeInputs ==
    /\ RootIdle
    /\ srvState = "idle"
    /\ srvStart \in {NumPort(defaultPort)} \cup { StrPort(d) : d \in UserPorts }
    /\ srvPort = srvStart
    /\ occupied \in SUBSET PortsInUse
    /\ denied \in SUBSET PortsDenied
    /\ attempts = <<>>
    /\ retriedOn = <<>>
    /\ boundPort = None
    /\ announced = None

\* The server as the root handler's requests find it: started at the default
\* port, which another process may hold.
RootServeInputs ==
    /\ RootInputs
    /\ srvState = "idle"
    /\ srvStart = NumPort(defaultPort)
    /\ srvPort = srvStart
    /\ occupied \in SUBSET {defaultPort}
    /\ denied \in SUBSET {defaultPort + 1}
    /\ attempts = <<>>
    /\ retriedOn = <<>>
    /\ boundPort = None
    /\ announced = None

(***************************************************************************)
(* Conversion pipeline: the add command and processPackage.                *)
(***************************************************************************)

\* What the registry answers to the metadata request: no answer (the request
\* fails), or a document with a dist-tags table (latest: "" when the tag is
\* not there) and a versions table, a set of [key, version]: under the key,
\* a release record whose own version field is version.
NetworkDown == [up |-> FALSE, latest |-> "", versions |-> {}]

RegistryDoc(latest, versions) == [up |-> TRUE, latest |-> latest, versions |-> versions]

Release(key, version) == [key |-> key, version |-> version]

HasVersion(doc, key) == \E r \in doc.versions : r.key = key

VersionRecord(doc, key) == CHOOSE r \in doc.versions : r.key = key

\* Lines 226-227: the key looked up in the versions table.
TargetVersion(doc, version) == IF version = "latest" THEN doc.latest ELSE version

\* fetchPackageMetadata(pkg, version): the error thrown, or the release record.
fetchPackageMetadata(doc, version) ==
    IF ~doc.up THEN [err |-> "Network", data |-> None]
    ELSE IF ~HasVersion(doc, TargetVersion(doc, version))
         THEN [err |-> "VersionNotFound", data |-> None]
    ELSE [err |-> "", data |-> Some(VersionRecord(doc, TargetVersion(doc, version)))]

\* `${pkg}@${data.version}`: the name of the download and of the output directory.
DirName(pkg, version) == [name |-> pkg, version |-> version]

\* updatePackageJson as one step: the file it leaves and whether it threw.
updatePackageJson(file, pkg, action, ver) ==
    IF file = None THEN [threw |-> FALSE, file |-> file]
    ELSE IF Parse(file[1]) = None \/ ApplyAction(Parse(file[1])[1], pkg, action, ver) = None
         THEN [threw |-> TRUE, file |-> file]
    ELSE [threw |-> FALSE,
          file |-> Some(Stringify(ApplyAction(Parse(file[1])[1], pkg, action, ver)[1]))]

Request(pkg, version) == [pkg |-> pkg, version |-> version]

\* Object.entries(esmPackages) as requests, in listed order.
RequestsOf(pkgs) == [i \in 1..Len(pkgs) |-> Request(pkgs[i].k, pkgs[i].v)]

\* The catch of processPackage: whatever was thrown, null is returned.
CatchReturn(err) == None

Outcome(req, cause, returned, key, data) ==
    [pkg |-> req.pkg, selector |-> req.version, cause |-> cause, returned |-> returned,
     key |-> key, data |-> data]

\* The text of a directory name, `${pkg}@${data.version}`, as path.join and
\* the URL of a bundle spell it.
DirText(d) == d.name \o "@" \o d.version

\* path.join(outputDir, "bundle.js"), relative to the conversion directory.
BundlePath(d) == <<DirText(d), "bundle.js">>

\* An asset of the package as copyAssets leaves it under the output directory.
AssetPath(d) == <<DirText(d), "img", "logo.png">>

\* serve(dir, port, host, customEntryFile), lines 121-219, up to the call of
\* attemptToListen: express.static(dir) throws a TypeError when dir is null,
\* and then no bind is attempted; otherwise the first bind attempt is made.
ServeCall(dir) == [dir |-> dir, threw |-> dir = None, bind |-> dir # None]

\* processPackage returns to processAndOptionallyServe, which calls serve
\* when --serve is given and returns to the loop of the add command: the next
\* request, or the end.  What serve throws rejects the promise the loop
\* awaits, and the loop is left.
Return(cause, returned) ==
    /\ outcomes' = Append(outcomes, Outcome(Head(queue), cause, returned, ppKey, ppData))
    /\ queue' = Tail(queue)
    /\ ppData' = None
    /\ ppKey' = None
    /\ IF cmd.serve
       THEN /\ serveCalls' = Append(serveCalls, ServeCall(returned))
            /\ ppPc' = IF ServeCall(returned).threw THEN "aborted"
                       ELSE IF Tail(queue) = <<>> THEN "end" ELSE "ready"
       ELSE /\ UNCHANGED serveCalls
            /\ ppPc' = IF Tail(queue) = <<>> THEN "end" ELSE "ready"

\* The add command's action, lines 57-74, up to the first processPackage.
AddCommand ==
    /\ ppPc = "start"
    /\ IF cmd.pkg = None
       THEN LET esmPackages == IF manifestFile = None THEN <<>>
                               ELSE EsmPackagesOf(manifestFile[1])
            IN /\ queue' = RequestsOf(esmPackages)
               /\ ppPc' = IF esmPackages = <<>> THEN "end" ELSE "ready"
       ELSE /\ queue' = <<Request(cmd.pkg[1], cmd.version)>>
            /\ ppPc' = "ready"
    /\ UNCHANGED <<cmd, ppData, ppKey, tmpDirs, esmDirs, outcomes, serveCalls, esmFiles,
                   esmPresent, rmLast>>
    /\ UNCHANGED <<entryVars, manifestVars, serveVars, assetVars>>

\* await fetchPackageMetadata(pkg, version), then lines 352-361: the
\* conversion directory and the download directory are made.
FetchMetadata(doc) ==
    /\ ppPc = "ready"
    /\ LET r == fetchPackageMetadata(doc, Head(queue).version) IN
       IF r.err # ""
       THEN /\ Return(r.err, CatchReturn(r.err))
            /\ UNCHANGED <<tmpDirs, esmPresent>>
       ELSE /\ ppData' = r.data
            /\ ppKey' = Some(r.data[1].key)
            /\ tmpDirs' = tmpDirs \cup {DirName(Head(queue).pkg, r.data[1].version)}
            /\ esmPresent' = TRUE
            /\ ppPc' = "fetched"
            /\ UNCHANGED <<queue, outcomes, serveCalls>>
    /\ UNCHANGED <<cmd, esmDirs, esmFiles, rmLast>>
    /\ UNCHANGED <<entryVars, manifestVars, serveVars, assetVars>>

\* await downloadPackage(data, downloadOutputDir)
DownloadPackage(ok) ==
    /\ ppPc = "fetched"
    /\ IF ok
       THEN /\ ppPc' = "downloaded"
            /\ UNCHANGED <<queue, outcomes, ppData, ppKey, serveCalls>>
       ELSE Return("DownloadFailed", CatchReturn("DownloadFailed"))
    /\ UNCHANGED <<cmd, tmpDirs, esmDirs, esmFiles, esmPresent, rmLast>>
    /\ UNCHANGED <<entryVars, manifestVars, serveVars, assetVars>>

\* await findExtractedRootDir(downloadOutputDir)
LocateRoot(ok) ==
    /\ ppPc = "downloaded"
    /\ IF ok
       THEN /\ ppPc' = "located"
            /\ UNCHANGED <<queue, outcomes, ppData, ppKey, serveCalls>>
       ELSE Return("RootNotFound", CatchReturn("RootNotFound"))
    /\ UNCHANGED <<cmd, tmpDirs, esmDirs, esmFiles, esmPresent, rmLast>>
    /\ UNCHANGED <<entryVars, manifestVars, serveVars, assetVars>>

\* Lines 370-391: the output directory is made; with an entry file the
\* bundle is written and then the assets are copied, without one only the
\* assets are copied.  err is what that threw ("" when nothing), entry
\* whether findEntryFile found a file, assets whether the package has an
\* asset to copy.
Convert(err, entry, assets) ==
    /\ ppPc = "located"
    /\ err = "BundleFailed" => entry
    /\ LET d == DirName(Head(queue).pkg, ppData[1].version) IN
       /\ esmDirs' = esmDirs \cup {d}
       /\ esmFiles' = esmFiles
             \cup (IF entry /\ err # "BundleFailed" THEN {BundlePath(d)} ELSE {})
             \cup (IF assets /\ err = "" THEN {AssetPath(d)} ELSE {})
    /\ IF err = ""
       THEN /\ ppPc' = "converted"
            /\ UNCHANGED <<queue, outcomes, ppData, ppKey, serveCalls>>
       ELSE Return(err, CatchReturn(err))
    /\ UNCHANGED <<cmd, tmpDirs, esmPresent, rmLast>>
    /\ UNCHANGED <<entryVars, manifestVars, serveVars, assetVars>>

\* Lines 394-396: updatePackageJson(pkg, "add", data.version) and the return
\* of the output directory.
RecordInManifest ==
    /\ ppPc = "converted"
    /\ LET u == updatePackageJson(manifestFile, Head(queue).pkg, "add", ppData[1].version) IN
       /\ manifestFile' = u.file
       /\ IF u.threw
          THEN Return("ManifestWriteFailed", CatchReturn("ManifestWriteFailed"))
          ELSE Return("", Some(DirName(Head(queue).pkg, ppData[1].version)))
    /\ UNCHANGED <<cmd, tmpDirs, esmDirs, esmFiles, esmPresent, rmLast>>
    /\ UNCHANGED <<updPc, updBuf, updOutcome, lastOp, prevOp, beforeFile, readerSaw>>
    /\ UNCHANGED <<entryVars, serveVars, assetVars>>

\* ---- the remove command ----

\* The name of a directory of the conversion directory as its parts, and
\* pkg + "@": names and versions hold no "@", so a prefix of the text is a
\* prefix of the parts.
DirParts(d) == <<d.name, "@", d.version>>

\* Line 103: dir.startsWith(pkg + "@")
StartsWithPkgAt(d, pkg) == IsPrefix(<<pkg, "@">>, DirParts(d))

\* fs.rmSync(packageDir, { recursive: true, force: true }) on the files.
RmSync(files, d) == { f \in files : ~IsPrefix(<<DirText(d)>>, f) }

RemoveResult(pkg, outcome) == [pkg |-> pkg, outcome |-> outcome, dirsBefore |-> esmDirs]

\* The remove command's action, lines 95-114.  readdirSync throws when the
\* conversion directory does not exist; what updatePackageJson throws leaves
\* the action; the loop removes the first directory that matches, in the
\* order readdirSync listed them (any order), and returns.
RemoveCommand(pkg) ==
    /\ ppPc = "end"
    /\ rmLast = None
    /\ IF ~esmPresent
       THEN /\ rmLast' = Some(RemoveResult(pkg, "threw"))
            /\ UNCHANGED <<manifestFile, esmDirs, esmFiles>>
       ELSE LET u == updatePackageJson(manifestFile, pkg, "remove", "")
                matching == { d \in esmDirs : StartsWithPkgAt(d, pkg) }
            IN /\ manifestFile' = u.file
               /\ IF u.threw
                  THEN /\ rmLast' = Some(RemoveResult(pkg, "threw"))
                       /\ UNCHANGED <<esmDirs, esmFiles>>
                  ELSE IF matching = {}
                  THEN /\ rmLast' = Some(RemoveResult(pkg, "notInstalled"))
                       /\ UNCHANGED <<esmDirs, esmFiles>>
                  ELSE \E d \in matching :
                          /\ esmDirs' = esmDirs \ {d}
                          /\ esmFiles' = RmSync(esmFiles, d)
                          /\ rmLast' = Some(RemoveResult(pkg, "removed"))
    /\ UNCHANGED <<cmd, ppPc, queue, ppData, ppKey, tmpDirs, outcomes, serveCalls, esmPresent>>
    /\ UNCHANGED <<updPc, updBuf, updOutcome, lastOp, prevOp, beforeFile, readerSaw>>
    /\ UNCHANGED <<entryVars, serveVars, assetVars>>

\* The conversion directory as earlier add commands left it.
InstalledDirs == { DirName(p, v) : p \in PkgNames, v \in Versions }

RemoveInputs ==
    /\ cmd = [pkg |-> None, version |-> "latest", serve |-> FALSE]
    /\ ppPc = "end"
    /\ queue = <<>>
    /\ ppData = None
    /\ ppKey = None
    /\ tmpDirs = {}
    /\ esmPresent \in BOOLEAN
    /\ esmDirs \in (IF esmPresent THEN SUBSET InstalledDirs ELSE {{}})
    /\ esmFiles = { BundlePath(d) : d \in esmDirs }
    /\ outcomes = <<>>
    /\ serveCalls = <<>>
    /\ rmLast = None

\* ---- the inputs of the pipeline ----

Selectors == {"latest"} \cup Versions

VersionTables ==
    { t \in SUBSET { Release(k, v) : k \in Versions, v \in Versions } :
          \A a, b \in t : a.key = b.key => a = b }

RegistryAnswers ==
    {NetworkDown}
    \cup { RegistryDoc(l, t) : l \in {""} \cup Versions, t \in VersionTables }

ConvertErrors == {"", "BundleFailed", "AssetCopyFailed"}

Commands ==
    { [pkg |-> None, version |-> "latest", serve |-> sv] : sv \in BOOLEAN }
    \cup { [pkg |-> Some(p), version |-> v, serve |-> sv] :
             p \in PkgNames, v \in Selectors, sv \in BOOLEAN }

PipeIdle ==
    /\ cmd = [pkg |-> None, version |-> "latest", serve |-> FALSE]
    /\ ppPc = "end"
    /\ queue = <<>>
    /\ ppData = None
    /\ ppKey = None
    /\ tmpDirs = {}
    /\ esmDirs = {}
    /\ outcomes = <<>>
    /\ serveCalls = <<>>
    /\ esmFiles = {}
    /\ esmPresent = FALSE
    /\ rmLast = None

PipeInputs ==
    /\ cmd \in Commands
    /\ ppPc = "start"
    /\ queue = <<>>
    /\ ppData = None
    /\ ppKey = None
    /\ tmpDirs = {}
    /\ esmDirs = {}
    /\ outcomes = <<>>
    /\ serveCalls = <<>>
    /\ esmFiles = {}
    /\ esmPresent = FALSE
    /\ rmLast = None

(***************************************************************************)
(* Asset selector: copyAssets.  A name is a string, kept as the sequence   *)
(* of its pieces ("." is a piece of its own), and a path is a sequence of  *)
(* names; the string of a path is what startsWith compares.                *)
(***************************************************************************)

includedAssetsExtensions ==
    { <<".", "css">>, <<".", "png">>, <<".", "jpg">>, <<".", "jpeg">>, <<".", "gif">>,
      <<".", "svg">> }

\* The positions of "." in a name.
Dots(name) == { i \in 1..Len(name) : name[i] = "." }

Last(S) == CHOOSE i \in S : \A j \in S : j <= i

\* path.extname(name): from the last "." on; empty when there is none or when
\* the only one starts the name.
ExtName(name) ==
    IF Dots(name) = {} \/ Last(Dots(name)) = 1 THEN <<>>
    ELSE SubSeq(name, Last(Dots(name)), Len(name))

\* includedAssetsExtensions.includes(path.extname(file.name)), with every
\* extension taken for an included one.
IsIncludedAsset_Any(name) == TRUE

\* includedAssetsExtensions.includes(path.extname(file.name))
IsIncludedAsset(name) == ExtName(name) \in includedAssetsExtensions

\* The string of path.join(srcDir, ...names) for the root directory srcDir.
RootString == <<"/", "tmp", "/", "pkg">>

PathString(path) == RootString \o Concat([i \in 1..Len(path) |-> <<"/">> \o path[i]])

\* srcPath.startsWith(entryDir)
StartsWith(str, prefix) == IsPrefix(prefix, str)

\* fs.readdirSync(dir, { withFileTypes: true }): the names in a directory,
\* each with whether it is a directory.
ReadDir(files, dir) ==
    { [name |-> f[Len(dir) + 1], isDir |-> Len(f) > Len(dir) + 1] :
          f \in { g \in files : Len(g) > Len(dir) /\ SubSeq(g, 1, Len(dir)) = dir } }

DestKind(d, path) ==
    IF \E n \in d : n.path = path THEN (CHOOSE n \in d : n.path = path).kind ELSE "none"

\* ensureDirectoryExists(destPath): nothing when something is there (a file
\* too), a new directory otherwise.
ensureDirectoryExists(d, path) ==
    IF DestKind(d, path) # "none" THEN d ELSE d \cup {[path |-> path, kind |-> "dir"]}

\* fs.copyFileSync(srcPath, destPath) throws when destPath is a directory or
\* its parent is not one.
CopyThrows(d, path) ==
    \/ DestKind(d, path) = "dir"
    \/ DestKind(d, SubSeq(path, 1, Len(path) - 1)) # "dir"

copyFileSync(d, path) ==
    { n \in d : n.path # path } \cup {[path |-> path, kind |-> "file"]}

Frame(dir, todo) == [dir |-> dir, todo |-> todo, excluded |-> {}]

Top == stack[Len(stack)]

Pop == SubSeq(stack, 1, Len(stack) - 1)

SetTop(f) == [stack EXCEPT ![Len(stack)] = f]

\* copyAssets(srcDir, destDir, entryDir, includeAllAssets), called on the root
\* of the source directory: line 441.
CopyStart(all) ==
    /\ copyPc = "ready"
    /\ includeAll' = all
    /\ stack' = <<Frame(<<>>, ReadDir(tree, <<>>))>>
    /\ copyPc' = "copying"
    /\ report' = {}
    /\ runs' = runs + 1
    /\ UNCHANGED <<tree, entryDir, dest>>
    /\ UNCHANGED <<entryVars, manifestVars, serveVars, pipeVars>>

\* One turn of files.forEach, lines 444-477, on a directory: a nested call
\* of copyAssets starts.
CopyDirectory(file) ==
    LET srcPath == Append(Top.dir, file.name)
        rest == [Top EXCEPT !.todo = @ \ {file}]
    IN /\ file.isDir
       /\ IF includeAll \/ StartsWith(PathString(srcPath), PathString(entryDir))
          THEN /\ dest' = ensureDirectoryExists(dest, srcPath)
               /\ stack' = Append(SetTop(rest), Frame(srcPath, ReadDir(tree, srcPath)))
          ELSE /\ stack' = SetTop(rest)
               /\ UNCHANGED dest
       /\ UNCHANGED <<copyPc, report>>

\* One turn of files.forEach on a file.
CopyFile(file) ==
    LET srcPath == Append(Top.dir, file.name)
        rest == [Top EXCEPT !.todo = @ \ {file}]
    IN /\ ~file.isDir
       /\ IF ~IsIncludedAsset(file.name)
          THEN /\ stack' = SetTop(rest)
               /\ UNCHANGED <<dest, copyPc, report>>
          ELSE IF includeAll
          THEN \* lines 453-458: a directory is made at destPath when nothing
               \* is there, then the file is copied onto destPath
               LET made == ensureDirectoryExists(dest, srcPath) IN
               IF CopyThrows(made, srcPath)
               THEN /\ dest' = made
                    /\ copyPc' = "threw"
                    /\ stack' = <<>>
                    /\ UNCHANGED report
               ELSE /\ dest' = copyFileSync(made, srcPath)
                    /\ stack' = SetTop(rest)
                    /\ UNCHANGED <<copyPc, report>>
          ELSE IF StartsWith(PathString(srcPath), PathString(entryDir))
          THEN IF CopyThrows(dest, srcPath)
               THEN /\ copyPc' = "threw"
                    /\ stack' = <<>>
                    /\ UNCHANGED <<dest, report>>
               ELSE /\ dest' = copyFileSync(dest, srcPath)
                    /\ stack' = SetTop(rest)
                    /\ UNCHANGED <<copyPc, report>>
          ELSE /\ stack' = SetTop([rest EXCEPT !.excluded = @ \cup {srcPath}])
               /\ UNCHANGED <<dest, copyPc, report>>

CopyStep ==
    /\ copyPc = "copying"
    /\ Top.todo # {}
    /\ \E file \in Top.todo : CopyDirectory(file) \/ CopyFile(file)
    /\ UNCHANGED <<tree, entryDir, includeAll, runs>>
    /\ UNCHANGED <<entryVars, manifestVars, serveVars, pipeVars>>

\* Lines 479-485: the end of one call of copyAssets; what it excluded is printed.
CopyReturn ==
    /\ copyPc = "copying"
    /\ Top.todo = {}
    /\ report' = IF ~includeAll THEN report \cup Top.excluded ELSE report
    /\ stack' = Pop
    /\ copyPc' = IF Pop = <<>> THEN "done" ELSE "copying"
    /\ UNCHANGED <<tree, entryDir, includeAll, dest, runs>>
    /\ UNCHANGED <<entryVars, manifestVars, serveVars, pipeVars>>

\* ---- the inputs of the asset selector ----

\* How many times copyAssets runs on the same destination.
MaxRuns == 2

Css == <<"a", ".", "css">>

Png == <<"logo", ".", "png">>

Txt == <<"notes", ".", "txt">>

IndexJs == <<"index", ".", "js">>

Dist == <<"dist">>

DistExtra == <<"dist", "-extra">>

Lib == <<"lib">>

AssetsDir == <<"assets">>

Img == <<"img">>

\* The places of the entry file.
EntryFilePaths == { <<IndexJs>>, <<Dist, IndexJs>>, <<Dist, Lib, IndexJs>> }

OptionalFiles ==
    { <<Css>>, <<Txt>>, <<Dist, Css>>, <<Dist, Lib, Png>>, <<DistExtra, Css>>,
      <<AssetsDir, Img, Png>> }

\* The same destination is used again (the package is converted again).
CopyAgain ==
    /\ copyPc \in {"done", "threw"}
    /\ runs < MaxRuns
    /\ copyPc' = "ready"
    /\ UNCHANGED <<tree, entryDir, includeAll, stack, dest, report, runs>>
    /\ UNCHANGED <<entryVars, manifestVars, serveVars, pipeVars>>

AssetsIdle ==
    /\ tree = {}
    /\ entryDir = <<>>
    /\ includeAll = FALSE
    /\ copyPc = "done"
    /\ stack = <<>>
    /\ dest = {}
    /\ report = {}
    /\ runs = MaxRuns

AssetsInputs ==
    /\ \E e \in EntryFilePaths, fs \in SUBSET OptionalFiles :
          /\ tree = fs \cup {e}
          /\ entryDir = SubSeq(e, 1, Len(e) - 1)
    /\ includeAll = FALSE
    /\ copyPc = "ready"
    /\ stack = <<>>
    /\ dest = {[path |-> <<>>, kind |-> "dir"]}
    /\ report = {}
    /\ runs = 0

(***************************************************************************)
(* Specifications: one per component, the other components idle.           *)
(***************************************************************************)

InitEntry == EntryInputs /\ ManifestIdle /\ ServeIdle /\ PipeIdle /\ AssetsIdle

NextEntry == FindEntry

SpecEntry == InitEntry /\ [][NextEntry]_vars

InitManifest == ManifestInputs /\ EntryIdle /\ ServeIdle /\ PipeIdle /\ AssetsIdle

NextManifest ==
    \/ \E p \in PkgNames, v \in Versions : UpdateStart(p, "add", v)
    \/ \E p \in PkgNames : UpdateStart(p, "remove", "")
    \/ UpdateWrite
    \/ ReaderRead

SpecManifest == InitManifest /\ [][NextManifest]_vars

InitServe == ServeInputs /\ EntryIdle /\ ManifestIdle /\ PipeIdle /\ AssetsIdle

NextServe ==
    \/ ServeStart
    \/ BindListening
    \/ BindAddrInUse
    \/ BindOtherError

SpecServe == InitServe /\ [][NextServe]_vars

InitPipeline == PipeInputs /\ ManifestInputs /\ EntryIdle /\ ServeIdle /\ AssetsIdle

NextPipeline ==
    \/ AddCommand
    \/ \E doc \in RegistryAnswers : FetchMetadata(doc)
    \/ \E ok \in BOOLEAN : DownloadPackage(ok)
    \/ \E ok \in BOOLEAN : LocateRoot(ok)
    \/ \E err \in ConvertErrors, entry \in BOOLEAN, assets \in BOOLEAN :
          Convert(err, entry, assets)
    \/ RecordInManifest

SpecPipeline == InitPipeline /\ [][NextPipeline]_vars

InitRoot == RootServeInputs /\ EntryIdle /\ ManifestIdle /\ PipeIdle /\ AssetsIdle

NextRoot ==
    \/ ServeStart
    \/ BindListening
    \/ BindAddrInUse
    \/ BindOtherError
    \/ GetRoot

SpecRoot == InitRoot /\ [][NextRoot]_vars

InitRemove == RemoveInputs /\ ManifestInputs /\ EntryIdle /\ ServeIdle /\ AssetsIdle

NextRemove == \E pkg \in PkgNames : RemoveCommand(pkg)

SpecRemove == InitRemove /\ [][NextRemove]_vars

InitAssets == AssetsInputs /\ EntryIdle /\ ManifestIdle /\ ServeIdle /\ PipeIdle

NextAssets ==
    \/ \E all \in BOOLEAN : CopyStart(all)
    \/ CopyStep
    \/ CopyReturn
    \/ CopyAgain

SpecAssets == InitAssets /\ [][NextAssets]_vars

(***************************************************************************)
(* C1                                                                      *)
(***************************************************************************)

\* The raw paths a descriptor field spells, in listed order.
C1_Strings(x) ==
    LET es == IF x.t \in {"str", "arr"} THEN x.v ELSE <<>>
        RECURSIVE Pick(_)
        Pick(s) == IF s = <<>> THEN <<>>
                   ELSE (IF Head(s).s THEN <<Head(s).p>> ELSE <<>>) \o Pick(Tail(s))
    IN Pick(es)

C1_Field(x) == IF x.t = "str" /\ x.v[1].p # <<>> THEN <<x.v[1].p>> ELSE <<>>

\* The priority order of the claim: exports.default, exports.require,
\* dist/index.js, dist/index.cjs, source, main, index.js, index.ts.
C1_Priority(d) ==
    (IF d.exports.t = "obj" THEN C1_Strings(d.exp.default) \o C1_Strings(d.exp.require)
     ELSE <<>>)
    \o << <<"dist", "index.js">>, <<"dist", "index.cjs">> >>
    \o C1_Field(d.source) \o C1_Field(d.main)
    \o << <<"index.js">>, <<"index.ts">> >>

C1_AllFour(d) ==
    /\ d.exports.t = "obj" /\ d.exp.default.t = "str"
    /\ ExistsSync(disk, PathJoin(d.exp.default.v[1].p))
    /\ ExistsSync(disk, <<"dist", "index.js">>)
    /\ d.main.t = "str" /\ d.main.v[1].p # <<>>
    /\ ExistsSync(disk, PathJoin(d.main.v[1].p))
    /\ ExistsSync(disk, <<"index.js">>)

\* C1: on a package root (one with a descriptor) findEntryFile returns the
\* first candidate of the priority order that exists on disk: the returned
\* path is a candidate that exists and every candidate before it is missing;
\* null is returned only when every candidate is missing; and when the
\* exports.default target, dist/index.js, the main target and index.js all
\* exist the result is the exports.default target.
C1_FirstExistingCandidate ==
    (entryPc = "done" /\ pkgJson # None) =>
        LET d == pkgJson[1]
            P == C1_Priority(d)
        IN /\ entryResult # None =>
                \E i \in 1..Len(P) :
                    /\ PathJoin(P[i]) = entryResult[1]
                    /\ ExistsSync(disk, entryResult[1])
                    /\ \A j \in 1..(i - 1) : ~ExistsSync(disk, PathJoin(P[j]))
           /\ entryResult = None =>
                \A i \in 1..Len(P) : ~ExistsSync(disk, PathJoin(P[i]))
           /\ C1_AllFour(d) => entryResult = Some(PathJoin(d.exp.default.v[1].p))

\* All four of exports.default, dist/index.js, main and index.js exist, and
\* the exports.default target (not dist/index.js) was returned.
C1_Witness ==
    /\ entryPc = "done" /\ pkgJson # None
    /\ C1_AllFour(pkgJson[1])
    /\ entryResult = Some(<<"esm", "index.js">>)
    /\ pkgJson[1].main = Str(<<"lib", "main.js">>)

(***************************************************************************)
(* C2                                                                      *)
(***************************************************************************)

C2_Versions(pkgs, n) == { pkgs[i].v : i \in { j \in 1..Len(pkgs) : pkgs[j].k = n } }

C2_Count(pkgs, n) == Cardinality({ i \in 1..Len(pkgs) : pkgs[i].k = n })

\* C2: on every existing package.json, whatever it holds, a call of
\* updatePackageJson completes without error; after remove the packages
\* mapping has no pkg key (so also after add followed by remove); a remove of
\* a name that is not there changes nothing; after add the name maps to the
\* given version and to no other.
C2_AddRemoveRoundTrip ==
    (updPc = "idle" /\ lastOp # None /\ beforeFile # None) =>
        LET op == lastOp[1]
            after == EsmPackagesOf(manifestFile[1])
            before == EsmPackagesOf(beforeFile[1])
        IN /\ updOutcome = "ok"
           /\ op.action = "remove" => ~HasKey(after, op.pkg)
           /\ (op.action = "remove" /\ ~HasKey(before, op.pkg)) => after = before
           /\ op.action = "add" =>
                 /\ C2_Count(after, op.pkg) = 1
                 /\ C2_Versions(after, op.pkg) = {op.version}
           /\ \A n \in PkgNames : C2_Count(after, n) <= 1

(***************************************************************************)
(* C3                                                                      *)
(***************************************************************************)

\* C3: whatever a concurrent reader reads from an existing manifest file is a
\* complete document (the old one or the new one), never a truncated or
\* partly written text.
C3_ReaderSeesCompleteFile ==
    (readerSaw # None /\ readerSaw[1].exists) => Parse(readerSaw[1].text) # None

(***************************************************************************)
(* C4                                                                      *)
(***************************************************************************)

\* The lowest port >= p that no other process holds.
C4_LowestFree(p) ==
    CHOOSE q \in p..(p + Cardinality(occupied)) :
        q \notin occupied /\ \A r \in p..(q - 1) : r \in occupied

\* C4: every address-in-use error is answered by exactly one new bind attempt,
\* at the numerically next port; a server that listens does so at the lowest
\* free port >= the port serve was started with, and the port of the
\* "Serving ... on" message is the port bound.
C4_RetryAtNextPort ==
    /\ \A i \in 1..(Len(attempts) - 1) : attempts[i + 1] = attempts[i] + 1
    /\ srvState # "idle" => Len(attempts) = Len(retriedOn) + 1
    /\ srvState = "listening" =>
          /\ boundPort = Some(C4_LowestFree(ToNumber(srvStart)))
          /\ DigitsToNat(announced[1]) = boundPort[1]

(***************************************************************************)
(* C5                                                                      *)
(***************************************************************************)

\* C5: the only steps of the bind state machine are Starting -> Listening,
\* Starting -> Starting(port + 1) on address-in-use and Starting -> Failed on
\* another bind error; nothing follows Listening or Failed, and no bind is
\* attempted after an error other than address-in-use.
C5_ThreeTransitions ==
    [][ /\ srvState \in {"listening", "failed"} => UNCHANGED <<srvState, srvPort, attempts>>
        /\ (srvState # "idle" /\ (srvState' # srvState \/ srvPort' # srvPort
                                  \/ attempts' # attempts)) =>
              /\ srvState = "starting"
              /\ \/ /\ srvState' = "listening"
                    /\ UNCHANGED <<srvPort, attempts>>
                 \/ /\ srvState' = "starting"
                    /\ ToNumber(srvPort) \in occupied
                    /\ ToNumber(srvPort') = ToNumber(srvPort) + 1
                    /\ attempts' = Append(attempts, ToNumber(srvPort) + 1)
                 \/ /\ srvState' = "failed"
                    /\ ToNumber(srvPort) \in denied
                    /\ UNCHANGED <<srvPort, attempts>> ]_vars

(***************************************************************************)
(* C6                                                                      *)
(***************************************************************************)

\* C6: once the metadata stage found the release record under a key of the
\* versions table, the version in the name of the download directory, in the
\* name of the output directory and in the manifest entry is that key, and
\* never the tag "latest".
C6_ConcreteVersionIsTableKey ==
    /\ ppPc \in {"fetched", "downloaded", "located", "converted"} =>
          /\ ppKey[1] # "latest"
          /\ DirName(Head(queue).pkg, ppKey[1]) \in tmpDirs
          /\ ppPc = "converted" => DirName(Head(queue).pkg, ppKey[1]) \in esmDirs
    /\ \A i \in 1..Len(outcomes) :
          outcomes[i].cause = "" =>
              /\ outcomes[i].returned = Some(DirName(outcomes[i].pkg, outcomes[i].key[1]))
              /\ manifestFile # None =>
                    \E j \in 1..Len(EsmPackagesOf(manifestFile[1])) :
                        EsmPackagesOf(manifestFile[1])[j]
                            = Pair(outcomes[i].pkg, outcomes[i].key[1])

(***************************************************************************)
(* C7                                                                      *)
(***************************************************************************)

\* C7: a conversion whose version has no release record ends before anything
\* is downloaded, and what processPackage returns to its caller then differs
\* from what it returns when the metadata request itself failed.
C7_VersionNotFoundDistinguishable ==
    /\ \A i \in 1..Len(outcomes) :
          outcomes[i].cause = "VersionNotFound" => outcomes[i].data = None
    /\ \A i, j \in 1..Len(outcomes) :
          (outcomes[i].cause = "VersionNotFound" /\ outcomes[j].cause = "Network")
              => outcomes[i].returned # outcomes[j].returned

(***************************************************************************)
(* C8, C9, C10                                                             *)
(***************************************************************************)

\* A file whose extension is on the allow-list.
HasAllowListedExtension(f) == ExtName(f[Len(f)]) \in includedAssetsExtensions

\* A path inside the subtree of a directory.
InsideSubtree(dir, f) == IsPrefix(dir, f)

\* C8: after a run in entry-scoped mode on a fresh destination, every file
\* with an allow-listed extension outside the subtree of the entry directory
\* is in the report of excluded assets and is not at its destination path;
\* and the run did not fail.
C8_OutsideBoundaryExcluded ==
    (~includeAll /\ runs = 1 /\ copyPc \in {"done", "threw"}) =>
        /\ copyPc = "done"
        /\ \A f \in tree :
              (HasAllowListedExtension(f) /\ ~InsideSubtree(entryDir, f)) =>
                  /\ f \in report
                  /\ DestKind(dest, f) = "none"

\* C9: a run in include-all mode on a fresh destination completes without
\* error and leaves every file with an allow-listed extension, at any depth,
\* as a regular file at the same relative path of the destination.
C9_IncludeAllCopiesEverything ==
    (includeAll /\ runs = 1 /\ copyPc \in {"done", "threw"}) =>
        /\ copyPc = "done"
        /\ \A f \in tree : HasAllowListedExtension(f) => DestKind(dest, f) = "file"

\* C10: in both modes and at every moment, every regular file of the
\* destination (all of them made by copyAssets) has an allow-listed extension
\* and is a file of the source at the same relative path.
C10_OnlyAllowListedCopied ==
    \A n \in dest :
        n.kind = "file" => (HasAllowListedExtension(n.path) /\ n.path \in tree)

\* A completed include-all run that copied a file and left notes.txt behind.
C10_Witness ==
    /\ copyPc = "done" /\ includeAll
    /\ \E n \in dest : n.kind = "file"
    /\ <<Txt>> \in tree
    /\ DestKind(dest, <<Txt>>) = "none"

(***************************************************************************)
(* C11                                                                     *)
(***************************************************************************)

\* C11: in a manifest-driven batch the packages of the manifest are processed
\* in listed order, and whatever the outcome of a package, every package of
\* the list has been attempted when the command ends.
C11_BatchAttemptsEveryPackage ==
    (cmd.pkg = None /\ ppPc # "start" /\ manifestFile # None) =>
        LET listed == EsmPackagesOf(manifestFile[1]) IN
        /\ Len(outcomes) <= Len(listed)
        /\ \A i \in 1..Len(outcomes) : outcomes[i].pkg = listed[i].k
        /\ ppPc \in {"end", "aborted"} => Len(outcomes) = Len(listed)

(***************************************************************************)
(* C12                                                                     *)
(***************************************************************************)

\* The immediate subdirectories of the served root.
C12_ImmediateDirs == { f[1] : f \in { g \in servedFiles : Len(g) >= 2 } }

\* C12: the response to a GET of "/" is the custom entry file when one is
\* configured and present in the current directory; in every other case it
\* is the generated index, which lists the immediate subdirectories of the
\* served root and nothing else, each with its import statement; and it is
\* never a file of the served directory.
C12_RootResponse ==
    response # None =>
        LET r == response[1] IN
        /\ r.kind # "staticFile"
        /\ IF customEntryFile # None /\ customEntryFile[1] \in cwdFiles
           THEN r.kind = "customFile" /\ r.file = customEntryFile
           ELSE /\ r.kind = "index"
                /\ r.listed = C12_ImmediateDirs
                /\ r.imports = { <<n, "bundle.js">> : n \in C12_ImmediateDirs }

(***************************************************************************)
(* C13                                                                     *)
(***************************************************************************)

\* The directory serve was given, as a path below the conversion directory.
C13_ServedRoot(call) == <<DirText(call.dir[1])>>

\* C13: after a successful add <pkg> <version> --serve the served root is the
\* output root (the conversion directory), the bundle is the file served at
\* /<name>@<concreteVersion>/bundle.js, and every import statement of the
\* generated index page names an existing file.
C13_BundleServedUnderNameAtVersion ==
    (cmd.pkg # None /\ cmd.serve /\ ppPc = "end" /\ outcomes[1].cause = "") =>
        LET d == outcomes[1].returned[1]
            root == C13_ServedRoot(serveCalls[1])
        IN /\ root = <<>>
           /\ StaticResolve(root, BundlePath(d)) \in esmFiles
           /\ \A n \in Subdirectories(esmFiles, root) :
                 StaticResolve(root, ImportPath(n)) \in esmFiles

(***************************************************************************)
(* C14                                                                     *)
(***************************************************************************)

\* C14: after a remove <pkg> that completed, no directory pkg@<version>
\* remains in the conversion directory, every directory of another package
\* is still there, and the manifest (when there is one) has no pkg key,
\* whether or not a directory of pkg was found.
C14_RemoveLeavesNoTrace ==
    (rmLast # None /\ rmLast[1].outcome # "threw") =>
        LET r == rmLast[1] IN
        /\ \A d \in esmDirs : d.name # r.pkg
        /\ \A d \in r.dirsBefore : d.name # r.pkg => d \in esmDirs
        /\ manifestFile # None => ~HasKey(EsmPackagesOf(manifestFile[1]), r.pkg)

(***************************************************************************)
(* C15                                                                     *)
(***************************************************************************)

\* C15: the manifest file changes only in the step that ends a conversion
\* with success, after the metadata, download, root-location, bundling and
\* asset-copy stages; and a conversion whose stages all completed has
\* returned its output directory and has its entry name -> concreteVersion
\* in the manifest.
C15_ManifestRecordsSuccesses ==
    /\ [](\A i \in 1..Len(outcomes) :
            outcomes[i].cause \in {"", "ManifestWriteFailed"} =>
                /\ outcomes[i].returned
                      = Some(DirName(outcomes[i].pkg, outcomes[i].data[1].version))
                /\ manifestFile # None
                /\ \E j \in 1..Len(EsmPackagesOf(manifestFile[1])) :
                      EsmPackagesOf(manifestFile[1])[j]
                          = Pair(outcomes[i].pkg, outcomes[i].data[1].version))
    /\ [][manifestFile' # manifestFile =>
             /\ ppPc = "converted"
             /\ outcomes'[Len(outcomes')].cause = ""]_vars

(***************************************************************************)
(* C17                                                                     *)
(***************************************************************************)

\* C17: with --serve, serve is called only for a package whose conversion
\* succeeded: never with an absent directory, and no bind attempt is made on
\* behalf of a package whose conversion failed.
C17_ServeOnlyAfterSuccess ==
    \A i \in 1..Len(serveCalls) :
        /\ serveCalls[i].dir # None
        /\ outcomes[i].cause = ""
        /\ serveCalls[i].bind => outcomes[i].cause = ""

(***************************************************************************)
(* C16                                                                     *)
(***************************************************************************)

\* C16: after a run in entry-scoped mode on a fresh destination, started at
\* the package root, every file with an allow-listed extension inside the
\* subtree of the entry directory is a regular file at the same relative
\* path of the destination, whatever the depth of the entry directory.
C16_InsideBoundaryCopied ==
    (~includeAll /\ runs = 1 /\ copyPc \in {"done", "threw"}) =>
        \A f \in tree :
            (HasAllowListedExtension(f) /\ InsideSubtree(entryDir, f)) =>
                DestKind(dest, f) = "file"

====
